---- MODULE Spec2Model ----
(***************************************************************************)
(* Model of the packaging subsystem of HyperOS-Port-Python                 *)
(* (src/src/core/packer.py, class Repacker).                               *)
(*                                                                         *)
(*  SpecSize : the initial block-image size computed by _pack_ext4, as a   *)
(*             function of the measured tree size (lines 131-145).         *)
(*  Spec     : pack_all (bounded worker pool, one task per partition, the  *)
(*             two image formats, the two-pass ext4 fit) followed by       *)
(*             pack_super_image (the dynamic-volume layout).               *)
(*  SpecLayout : pack_super_image over target directories whose images     *)
(*             are large enough to matter for the group budget.            *)
(*  SpecHybrid : one packaging call, pack_super_image with the hybrid      *)
(*             assembler or pack_ota_payload, over firmware, templates and *)
(*             environments.                                               *)
(*  SpecModules : the application patch modules (src/src/modules).         *)
(*  SpecTask  : one partition task over every tool outcome.                *)
(*  SpecStage : the hybrid assembler with and without a super container.   *)
(*  SpecInject : one firmware-command injector over script texts.          *)
(*  SpecCollect : the firmware collector of initialize_target              *)
(*             (src/src/core/context.py).                                  *)
(*  SpecPool  : the install pool of initialize_target, then pack_all, with *)
(*             more partitions than workers.                               *)
(*                                                                         *)
(* All byte counts stay below 2^31.  The device super sizes (about 9 GB)   *)
(* are kept in 4096-byte blocks; every entry of the table is a multiple of *)
(* 4096.                                                                   *)
(***************************************************************************)
EXTENDS Integers, Sequences, FiniteSets, TLC

VARIABLES
    \* ---- size computation (SpecSize) ----
    size_orig,      \* <<S1, S2>>: two measured tree sizes (du -sb)
    size,           \* <<size(S1), size(S2)>> once computed, <<>> before
    \* ---- pipeline (Spec, SpecLayout) ----
    pack_type,      \* "EROFS" | "EXT"
    is_ab_device,   \* ctx.is_ab_device
    stock_rom_code, \* ctx.stock_rom_code
    lpmake_exists,  \* otatools/bin/lpmake is present
    src_dir,        \* set of partition directories present in target_dir
    img,            \* partition -> image file <partition>.img in target_dir
    futures,        \* partition -> state of its task in the executor
    build,          \* partition -> record of what its task did
    pack_all_pc,    \* position of pack_all
    collected,      \* futures whose result() the as_completed loop has taken
    super_pc,       \* position / outcome of pack_super_image
    base_args,      \* the layout handed to lpmake: sequence of declarations
    super_size,     \* the resolved device super size, in blocks (0: unset)
    tool_log,       \* external tools pack_super_image invoked, in order
    \* ---- package assembly (SpecHybrid) ----
    target_extra,   \* stems of the other *.img files in target_dir
    super_files,    \* which of super.img / super.zst exist in target_dir
    repack_images_dir, \* the collected firmware directory
    template,       \* the template tree copied into the staging directory
    update_binary,  \* bin/flash/update-binary
    device_custom,  \* image stems provided by devices/<stock_rom_code>
    GITHUB_ACTIONS, \* the environment variable
    out_path,       \* the staging directory of the hybrid package
    out_dir,        \* the packages written to the output directory
    injected,       \* script variant -> firmware commands written into it
    asm_log,        \* the closing steps of the hybrid assembler, in order
    ota_pc,         \* outcome of pack_ota_payload
    images_out,     \* the IMAGES folder of the target-files tree
    removed,        \* images the hybrid assembler deleted as redundant
    ab_partitions,  \* META/ab_partitions.txt, one name per line
    dynamic_partitions_info, \* META/dynamic_partitions_info.txt
    \* ---- application patch modules (SpecModules) ----
    is_eu_port,     \* ctx.is_eu_port: "True", "False", or "missing"
    work_dir,       \* file name -> decoded smali file of the application
    settings_pc,    \* position of SettingsModule.run
    smali_calls,    \* smali_patch calls issued by SettingsModule.run
    xml_calls,      \* XML operations issued by SettingsModule.run
    soh_pc,         \* position of _patch_battery_health
    target_file,    \* the handler file _patch_battery_health settled on
    soh_calls,      \* smali_patch calls issued by _patch_battery_health
    \* ---- firmware injection into one script (SpecInject) ----
    script_path,    \* which script is patched: "update-binary", "sh", "bat"
    content,        \* the script's text before the patch, as a token sequence
    firmware_dir,   \* the files of the folder the injector lists
    new_content,    \* the script after the patch
    inject_pc,      \* position of the injector
    \* ---- workspace initialisation (SpecPool, SpecCollect) ----
    rom_parts,      \* partitions the source ROMs can provide
    stock_images,   \* the stock ROM's images directory
    install,        \* partition -> state of its install task in the executor
    install_pc      \* position of initialize_target

vars == <<size_orig, size, pack_type, is_ab_device, stock_rom_code,
          lpmake_exists, src_dir, img, futures, build,
          pack_all_pc, collected, super_pc, base_args, super_size,
          tool_log, target_extra, super_files, repack_images_dir, template,
          update_binary, device_custom, GITHUB_ACTIONS, out_path, out_dir,
          injected, asm_log, ota_pc, images_out, removed, ab_partitions,
          dynamic_partitions_info, is_eu_port, work_dir,
          settings_pc, smali_calls, xml_calls, soh_pc, target_file,
          soh_calls, script_path, content, firmware_dir, new_content,
          inject_pc, rom_parts, stock_images, install, install_pc>>

sizeVars == <<size_orig, size>>
pipeVars == <<pack_type, is_ab_device, stock_rom_code, lpmake_exists,
              src_dir, img, futures, build, pack_all_pc,
              collected, super_pc, base_args, super_size, tool_log,
              target_extra, super_files, repack_images_dir, template,
              update_binary, device_custom, GITHUB_ACTIONS, out_path,
              out_dir, injected, asm_log, ota_pc, images_out, removed,
              ab_partitions, dynamic_partitions_info>>
scriptVars == <<script_path, content, firmware_dir, new_content, inject_pc>>
ctxVars == <<rom_parts, stock_images, install, install_pc>>
modVars == <<is_eu_port, work_dir, settings_pc, smali_calls, xml_calls,
             soh_pc, target_file, soh_calls, scriptVars, ctxVars>>
\* what only the packaging calls read
asmIn == <<template, update_binary, device_custom, GITHUB_ACTIONS>>
\* what only the packaging calls write
asmVars == <<super_size, tool_log, target_extra, super_files,
             repack_images_dir, out_path, out_dir, injected, asm_log, ota_pc,
             images_out, removed, ab_partitions, dynamic_partitions_info>>

Variants == {"update-binary", "sh", "bat"}

\* nothing staged, nothing packaged, no tool run yet; target_dir is created
\* empty by the context (context.py lines 94-97), so it holds no super image
AsmIdle ==
    /\ super_size = 0
    /\ tool_log = <<>>
    /\ super_files = {}
    /\ out_path = [exists |-> FALSE, images |-> {}]
    /\ out_dir = {}
    /\ injected = [v \in Variants |-> <<>>]
    /\ asm_log = <<>>
    /\ ota_pc = "idle"
    /\ images_out = {}
    /\ removed = {}
    /\ ab_partitions = <<>>
    /\ dynamic_partitions_info =
          [super_size |-> 0, group_size |-> 0, partition_list |-> <<>>]

\* no script handed to an injector
ScriptIdle ==
    /\ script_path = "sh"
    /\ content = <<>>
    /\ firmware_dir = {}
    /\ new_content = [written |-> FALSE, head |-> <<>>, insertion |-> <<>>,
                      tail |-> <<>>]
    /\ inject_pc = "idle"

\* initialize_target is not part of the run: the workspace is as drawn
CtxIdle ==
    /\ rom_parts = {}
    /\ stock_images = [exists |-> FALSE, files |-> {}]
    /\ install = <<>>
    /\ install_pc = "returned"

\* no application to patch, no patch module run
ModIdle ==
    /\ ScriptIdle
    /\ CtxIdle
    /\ is_eu_port = "missing"
    /\ work_dir = <<>>
    /\ settings_pc = "idle"
    /\ smali_calls = <<>>
    /\ xml_calls = <<>>
    /\ soh_pc = "idle"
    /\ target_file = "none"
    /\ soh_calls = <<>>

\* a run with no firmware, no template and no update-binary
AsmQuiet ==
    /\ AsmIdle
    /\ target_extra = {}
    /\ repack_images_dir = [exists |-> FALSE, files |-> {}]
    /\ template = [images |-> {}, sh |-> "absent", bat |-> "absent"]
    /\ update_binary = "absent"
    /\ device_custom = {}
    /\ GITHUB_ACTIONS = "unset"

(***************************************************************************)
(* Bounds of the model                                                     *)
(***************************************************************************)
Window == 2      \* tree sizes are sampled within Window bytes of each anchor
MaxParts == 2    \* number of partition directories a run may hold
MaxShrink == 1   \* blocks resize2fs -M may take off an image
MaxFree == 2     \* free blocks tune2fs may report after the shrink
MaxImages == 6   \* number of partition images in a SpecLayout target_dir
MaxHybridParts == 1 \* number of partition images in a SpecHybrid target_dir
MaxScriptLen == 3 \* number of tokens of a script text
PoolParts == 5   \* partitions the ROMs provide in SpecPool

(***************************************************************************)
(* Program constants                                                       *)
(***************************************************************************)
BlockSize == 4096
MiB == 1048576
Tier100MiB == 104857600
Tier1GiB == 1073741824

(***************************************************************************)
(* _pack_ext4, step B: the size-tiered inflation policy                    *)
(***************************************************************************)
RECURSIVE Pow2Floor(_)
\* the largest power of two <= n (n >= 1): the binade of a double
Pow2Floor(n) == IF n < 2 THEN 1 ELSE 2 * Pow2Floor(n \div 2)

\* int(size_orig * 1.15) in IEEE-754 double arithmetic, round to nearest even.
\* The double nearest 1.15 is 1.15 - 0.4 * 2^-52, so the exact product is
\* S*23/20 - 0.4*S*2^-52.  When 20 does not divide S the fraction of S*23/20
\* is at least 1/20 and the truncation is floor(S*23/20).  When 20 divides S,
\* N = S*23/20 is an integer and the product rounds to the double just below
\* N exactly when 0.4*S*2^-52 exceeds half the spacing 2^(e-52) of doubles
\* below N (2^e <= N < 2^(e+1)), that is when 4*S > 5*2^e; int() then gives
\* N - 1.  (S*23 is written S + S*3 to stay below 2^31.)
IntMul115(S) ==
    LET N == S + ((S * 3) \div 20)
    IN  IF S % 20 = 0 /\ 4 * S > 5 * Pow2Floor(N) THEN N - 1 ELSE N

\* int(size_orig * 1.08): the double nearest 1.08 is 1.08 + 0.32 * 2^-52, the
\* product is never below the exact one and its excess stays far below 1/25,
\* so the truncation is floor(S*27/25).
IntMul108(S) == S + ((S * 2) \div 25)

\* int(size_orig * 1.03): the double nearest 1.03 is 1.03 + 0.12 * 2^-52;
\* likewise floor(S*103/100).
IntMul103(S) == S + 3 * (S \div 100) + (((S % 100) * 3) \div 100)

\* lines 135-142
TargetSizeMutFloor(S) ==
    IF S < MiB THEN 2 * MiB
    ELSE IF S < Tier100MiB THEN IntMul115(S)
    ELSE IF S < Tier1GiB THEN IntMul108(S)
    ELSE IntMul103(S)
TargetSize(S) ==
    IF S < MiB THEN MiB
    ELSE IF S < Tier100MiB THEN IntMul115(S)
    ELSE IF S < Tier1GiB THEN IntMul108(S)
    ELSE IntMul103(S)

\* line 145: size = (size // 4096) * 4096
AlignMutNoop(n) == n
Align4K(n) == (n \div BlockSize) * BlockSize

\* lines 135-145: the size _make_ext4_image is first called with
InitialSize(S) == Align4K(TargetSize(S))

(***************************************************************************)
(* SpecSize: measured tree sizes around the tier boundaries                *)
(***************************************************************************)
Anchors == {500000, MiB, 1392640, 50000000, Tier100MiB, Tier1GiB, 2000000000}
Samples == UNION { (a - Window)..(a + Window) : a \in Anchors }

PipeIdle ==
    /\ pack_type = "EROFS"
    /\ is_ab_device = FALSE
    /\ stock_rom_code = "OTHER"
    /\ lpmake_exists = FALSE
    /\ src_dir = {}
    /\ img = <<>>
    /\ futures = <<>>
    /\ build = <<>>
    /\ pack_all_pc = "idle"
    /\ collected = {}
    /\ super_pc = "idle"
    /\ base_args = <<>>
    /\ AsmQuiet

SizeIdle ==
    /\ size_orig = <<>>
    /\ size = <<>>

SizeInit ==
    /\ size_orig \in Samples \X Samples
    /\ size = <<>>
    /\ PipeIdle
    /\ ModIdle

\* _pack_ext4 steps A-B on two trees
ComputeSize ==
    /\ size = <<>>
    /\ size' = <<InitialSize(size_orig[1]), InitialSize(size_orig[2])>>
    /\ UNCHANGED <<size_orig, pipeVars, modVars>>

SizeNext == ComputeSize

SpecSize == SizeInit /\ [][SizeNext]_vars

Tier(S) == IF S < MiB THEN 0
           ELSE IF S < Tier100MiB THEN 1
           ELSE IF S < Tier1GiB THEN 2 ELSE 3

\* C4 (as stated): for all S1 <= S2, size(S1) <= size(S2), also across the
\* 1MiB, 100MiB and 1GiB tier boundaries.
C4_MonotonicEverywhere ==
    (size # <<>> /\ size_orig[1] <= size_orig[2]) => size[1] <= size[2]

\* C4 (amended): for S1 <= S2 in the same tier, or both below 100MiB (so
\* across the 1MiB boundary), size(S1) <= size(S2).
C4_MonotonicWithinTier ==
    (/\ size # <<>>
     /\ size_orig[1] <= size_orig[2]
     /\ \/ Tier(size_orig[1]) = Tier(size_orig[2])
        \/ size_orig[2] < Tier100MiB)
    => size[1] <= size[2]

C4_Witness ==
    /\ size # <<>>
    /\ size_orig[1] < MiB /\ size_orig[2] >= MiB /\ size_orig[2] < Tier100MiB
    /\ size[1] < size[2]

\* C5: the initial block-image size is a multiple of 4096 and at least 1 MiB.
C5_AlignedAtLeast1MiB ==
    size # <<>> =>
        \A i \in 1..2 : size[i] % BlockSize = 0 /\ size[i] >= MiB

C5_Witness ==
    /\ size # <<>>
    /\ size_orig[1] = 50000000 /\ size[1] = 57499648
    /\ TargetSize(size_orig[1]) % BlockSize # 0

\* C6: the size is exactly the tier's factor applied to S in exact
\* arithmetic, rounded down to 4096: 1MiB for S < 1MiB,
\* floor(S*1.15/4096)*4096, floor(S*1.08/4096)*4096, floor(S*1.03/4096)*4096.
ExactPolicy(S) ==
    IF S < MiB THEN MiB
    ELSE IF S < Tier100MiB THEN ((S + ((S * 3) \div 20)) \div BlockSize) * BlockSize
    ELSE IF S < Tier1GiB THEN ((S + ((S * 2) \div 25)) \div BlockSize) * BlockSize
    ELSE ((S + 3 * (S \div 100) + (((S % 100) * 3) \div 100)) \div BlockSize) * BlockSize

C6_TieredPolicyExact ==
    size # <<>> => \A i \in 1..2 : size[i] = ExactPolicy(size_orig[i])

(***************************************************************************)
(* The pipeline: partitions, images, external tools                        *)
(***************************************************************************)
\* pack_super_image, lines 289 and 313: the hard-coded dynamic partitions
partitions == <<"odm", "mi_ext", "system", "system_ext", "product", "vendor",
                "odm_dlkm", "vendor_dlkm", "system_dlkm", "product_dlkm">>

Range(s) == { s[i] : i \in 1..Len(s) }

\* initialize_target, lines 101-116: the directories target_dir can hold
partition_layout == Range(partitions)

\* pack_all line 54, initialize_target line 119: the size of both pools
max_workersMutPerTask == Cardinality(partition_layout)
max_workers == 4

\* the partition directories of the modelled runs
PartUniverse == { partitions[i] : i \in 1..MaxParts }

\* <partition>.img in target_dir.  complete: the file is the product of a
\* build whose every tool step succeeded.
NoImg == [exists |-> FALSE, size |-> 0, complete |-> FALSE]
ImgFile(sz, ok) == [exists |-> TRUE, size |-> sz, complete |-> ok]

\* sizes du -sb may report for a partition tree
TreeSizes == {500000, 1392640, 50000000}
\* sizes of the images mkfs.erofs may write
ErofsSizes == {BlockSize * 100, BlockSize * 500000}

ProbeFail == -1

\* What the external tools do during one task.  failAt: the tool invocation
\* that fails (0: none; EXT 1 mke2fs, 2 e2fsdroid, 3 resize2fs, 4-6 the same
\* in the second pass; EROFS 1 mkfs.erofs).  leftover: whether a failing
\* image-creating tool leaves its output file behind.
Oracles ==
    [S : TreeSizes, failAt : 0..6, leftover : BOOLEAN,
     erofs : ErofsSizes, shrink1 : 0..MaxShrink, shrink2 : 0..MaxShrink,
     probe : {ProbeFail} \cup (0..MaxFree)]

\* the tool behaviours explored when several tasks run side by side
PipeOracles ==
    { o \in Oracles : /\ o.S = 500000 /\ o.erofs = BlockSize * 100
                      /\ o.shrink1 = 0 /\ o.shrink2 = 0
                      /\ o.probe \in {ProbeFail, 1} }

NoBuild == [format |-> "none", raised |-> FALSE, first_pass |-> FALSE,
            probed |-> FALSE, free |-> 0, rebuilt |-> FALSE,
            current_img_size |-> 0, new_size |-> 0, log |-> <<>>]

\* _get_free_blocks, lines 237-246: a failing tune2fs, an unparsable or a
\* missing "Free blocks:" line give 0
_get_free_blocks(probe) == IF probe = ProbeFail THEN 0 ELSE probe

\* _make_ext4_image, lines 188-220: mke2fs creates an image of size // 4096
\* blocks, e2fsdroid populates it.  firstTool: 1 in the first pass, 4 in the
\* second.  Returns whether it raised and the image file it leaves.
_make_ext4_image(sz, o, firstTool) ==
    IF o.failAt = firstTool
    THEN [raised |-> TRUE,
          img |-> IF o.leftover THEN ImgFile((sz \div BlockSize) * BlockSize, FALSE)
                  ELSE NoImg,
          log |-> <<"mke2fs:fail">>]
    ELSE IF o.failAt = firstTool + 1
    THEN [raised |-> TRUE,
          img |-> ImgFile((sz \div BlockSize) * BlockSize, FALSE),
          log |-> <<"mke2fs", "e2fsdroid:fail">>]
    ELSE [raised |-> FALSE,
          img |-> ImgFile((sz \div BlockSize) * BlockSize, FALSE),
          log |-> <<"mke2fs", "e2fsdroid">>]

\* line 166: mi_ext does not undergo the second pack
ExemptMutNone(part_name) == FALSE
Exempt(part_name) == part_name = "mi_ext"

\* lines 174-179: the size of the second generation
NewSizeMutNoScale(current_img_size, free_blocks) ==
    Align4K(current_img_size - free_blocks)
NewSize(current_img_size, free_blocks) ==
    Align4K(current_img_size - free_blocks * BlockSize)

\* _pack_ext4, lines 128-186.  Returns the record of the build and the image
\* file left in target_dir.
_pack_ext4(part_name, o) ==
    LET sz   == InitialSize(o.S)
        g1   == _make_ext4_image(sz, o, 1)
        rec0 == [NoBuild EXCEPT !.format = "EXT"]
    IN
    IF g1.raised
    THEN [build |-> [rec0 EXCEPT !.raised = TRUE, !.log = g1.log],
          img |-> g1.img]
    ELSE IF o.failAt = 3
    THEN [build |-> [rec0 EXCEPT !.raised = TRUE,
                                 !.log = g1.log \o <<"resize2fs:fail">>],
          img |-> g1.img]
    ELSE
    LET cur  == g1.img.size - o.shrink1 * BlockSize
        log1 == g1.log \o <<"resize2fs">>
        rec1 == [rec0 EXCEPT !.first_pass = TRUE, !.current_img_size = cur,
                             !.log = log1]
    IN
    IF Exempt(part_name)
    THEN [build |-> rec1, img |-> ImgFile(cur, TRUE)]
    ELSE
    LET free_blocks == _get_free_blocks(o.probe)
        rec2 == [rec1 EXCEPT !.probed = TRUE, !.free = o.probe,
                             !.log = log1 \o <<"tune2fs">>]
    IN
    IF ~(free_blocks > 0)
    THEN [build |-> rec2, img |-> ImgFile(cur, TRUE)]
    ELSE
    LET new_size == NewSize(cur, free_blocks)
        g2   == _make_ext4_image(new_size, o, 4)
        rec3 == [rec2 EXCEPT !.rebuilt = TRUE, !.new_size = new_size,
                             !.log = rec2.log \o <<"unlink">> \o g2.log]
    IN
    IF g2.raised
    THEN [build |-> [rec3 EXCEPT !.raised = TRUE], img |-> g2.img]
    ELSE IF o.failAt = 6
    THEN [build |-> [rec3 EXCEPT !.raised = TRUE,
                                 !.log = rec3.log \o <<"resize2fs:fail">>],
          img |-> g2.img]
    ELSE [build |-> [rec3 EXCEPT !.log = rec3.log \o <<"resize2fs">>],
          img |-> ImgFile(g2.img.size - o.shrink2 * BlockSize, TRUE)]

\* _pack_erofs, lines 105-126: one mkfs.erofs invocation; on success the
\* source tree is removed; a failure is caught and logged.
_pack_erofsMutCleanup(part_name, o) ==
    LET rec0 == [NoBuild EXCEPT !.format = "EROFS"]
    IN
    IF o.failAt = 1
    THEN [build |-> [rec0 EXCEPT !.log = <<"mkfs.erofs:fail", "rmtree">>],
          img |-> IF o.leftover THEN ImgFile(o.erofs, FALSE) ELSE NoImg,
          rmtree |-> TRUE]
    ELSE [build |-> [rec0 EXCEPT !.first_pass = TRUE,
                                 !.log = <<"mkfs.erofs", "rmtree">>],
          img |-> ImgFile(o.erofs, TRUE),
          rmtree |-> TRUE]
_pack_erofs(part_name, o) ==
    LET rec0 == [NoBuild EXCEPT !.format = "EROFS"]
    IN
    IF o.failAt = 1
    THEN [build |-> [rec0 EXCEPT !.log = <<"mkfs.erofs:fail">>],
          img |-> IF o.leftover THEN ImgFile(o.erofs, FALSE) ELSE NoImg,
          rmtree |-> FALSE]
    ELSE [build |-> [rec0 EXCEPT !.first_pass = TRUE,
                                 !.log = <<"mkfs.erofs", "rmtree">>],
          img |-> ImgFile(o.erofs, TRUE),
          rmtree |-> TRUE]

\* _pack_partition, lines 71-84: patch the manifests, then build the image
_pack_partition(part_name, o) ==
    IF pack_type = "EXT"
    THEN LET r == _pack_ext4(part_name, o)
         IN  [build |-> [r.build EXCEPT !.log = <<"patch">> \o r.build.log],
              img |-> r.img, rmtree |-> FALSE]
    ELSE LET r == _pack_erofs(part_name, o)
         IN  [build |-> [r.build EXCEPT !.log = <<"patch">> \o r.build.log],
              img |-> r.img, rmtree |-> r.rmtree]

(***************************************************************************)
(* _get_super_size, lines 827-857 (sizes in 4096-byte blocks)              *)
(***************************************************************************)
SuperSize13Series == 2359296   \* 9663676416 bytes
SuperSizeSunstone == 2227200   \* 9122611200 bytes
SuperSizeYudi == 2883584       \* 11811160064 bytes
default_size == 2228224        \* 9126805504 bytes

\* str.upper() on the device codes of the model
UpperMutIdentity(code) == code
Upper(code) ==
    CASE code = "fuxi" -> "FUXI"
      [] code = "munch" -> "MUNCH"
      [] code = "Marble" -> "MARBLE"
      [] code = "sunstone" -> "SUNSTONE"
      [] code = "unknown" -> "UNKNOWN"
      [] OTHER -> code

_get_super_size(code) ==
    LET device_code == Upper(code)
    IN  IF device_code \in {"FUXI", "NUWA", "ISHTAR", "MARBLE", "SOCRATES", "BABYLON"}
        THEN SuperSize13Series
        ELSE IF device_code \in {"SUNSTONE"} THEN SuperSizeSunstone
        ELSE IF device_code \in {"YUDI"} THEN SuperSizeYudi
        ELSE default_size

DeviceCodes == {"fuxi", "munch"}
\* the codes the context can resolve: any case, or "unknown" when neither the
\* firmware file name nor the properties give one (context.py lines 297-307)
SuperSizeCodes == {"fuxi", "FUXI", "Marble", "sunstone", "YUDI", "munch",
                   "unknown"}

(***************************************************************************)
(* pack_super_image, lines 250-334: the layout handed to lpmake            *)
(***************************************************************************)
\* lines 298-301: one declaration per present image on an A-only device
DeclAonlyMutTwice(part, im) ==
    << [part |-> part, slot |-> "", size |-> im.size,
        group |-> "qti_dynamic_partitions", image |-> TRUE],
       [part |-> part, slot |-> "", size |-> im.size,
        group |-> "qti_dynamic_partitions", image |-> TRUE] >>
DeclAonly(part, im) ==
    << [part |-> part, slot |-> "", size |-> im.size,
        group |-> "qti_dynamic_partitions", image |-> TRUE] >>

\* lines 322-326: two declarations per present image on a virtual-A/B device
DeclVab(part, im) ==
    << [part |-> part, slot |-> "_a", size |-> im.size,
        group |-> "qti_dynamic_partitions_a", image |-> TRUE],
       [part |-> part, slot |-> "_b", size |-> 0,
        group |-> "qti_dynamic_partitions_b", image |-> FALSE] >>

RECURSIVE Declarations(_, _, _)
\* lines 291-301 and 315-326: the loop over the hard-coded partitions,
\* from index i on
Declarations(i, images, is_ab) ==
    IF i > Len(partitions) THEN <<>>
    ELSE LET part == partitions[i]
             rest == Declarations(i + 1, images, is_ab)
         IN  IF images[part].exists
             THEN (IF is_ab THEN DeclVab(part, images[part])
                   ELSE DeclAonly(part, images[part])) \o rest
             ELSE rest

\* lines 283 and 307-308: the groups and their budget
Groups(is_ab) ==
    IF is_ab THEN {"qti_dynamic_partitions_a", "qti_dynamic_partitions_b"}
    ELSE {"qti_dynamic_partitions"}

(***************************************************************************)
(* pack_all, lines 38-69                                                   *)
(***************************************************************************)
Submitted == { p \in partition_layout : futures[p] # "none" }
Finished  == { p \in partition_layout : futures[p] \in {"done", "raised"} }
Running   == { p \in partition_layout : futures[p] = "running" }

(***************************************************************************)
(* PortingContext.initialize_target (context.py lines 84-147) with its     *)
(* install pool and the firmware collector _copy_firmware_images           *)
(***************************************************************************)
\* in the collector a partition name is its sequence of characters
exclude_list ==
    { <<"v", "e", "n", "d", "o", "r">>,
      <<"o", "d", "m">>,
      <<"v", "e", "n", "d", "o", "r", "_", "d", "l", "k", "m">>,
      <<"o", "d", "m", "_", "d", "l", "k", "m">>,
      <<"s", "y", "s", "t", "e", "m", "_", "d", "l", "k", "m">>,
      <<"s", "y", "s", "t", "e", "m">>,
      <<"s", "y", "s", "t", "e", "m", "_", "e", "x", "t">>,
      <<"p", "r", "o", "d", "u", "c", "t">>,
      <<"m", "i", "_", "e", "x", "t">>,
      <<"p", "r", "o", "d", "u", "c", "t", "_", "d", "l", "k", "m">> }

\* the names of stock images: firmware, slotted or not, dynamic partitions,
\* slotted or not, and names that hold _a or _b before their end
StockNames ==
    { <<"x", "b", "l">>,
      <<"b", "o", "o", "t", "_", "a">>,
      <<"c", "u", "s", "t">>,
      <<"v", "e", "n", "d", "o", "r", "_", "b", "o", "o", "t">>,
      <<"s", "y", "s", "t", "e", "m">>,
      <<"v", "e", "n", "d", "o", "r", "_", "b">>,
      <<"o", "d", "m", "_", "a">>,
      <<"s", "y", "s", "_", "a", "t", "e", "m">> }

\* str.replace(old, ""): every occurrence of old, left to right, is removed
RECURSIVE Remove(_, _)
Remove(name, old) ==
    IF Len(name) < Len(old) THEN name
    ELSE IF SubSeq(name, 1, Len(old)) = old
    THEN Remove(SubSeq(name, Len(old) + 1, Len(name)), old)
    ELSE <<Head(name)>> \o Remove(Tail(name), old)

\* line 208: part_name.replace("_a", "").replace("_b", "")
clean_name(part_name) == Remove(Remove(part_name, <<"_", "a">>), <<"_", "b">>)

\* lines 191-220: the stock images copied to repack_images, each under its
\* own file name
_copy_firmware_images(stock) ==
    IF ~stock.exists THEN {}
    ELSE { <<n, "img">> : n \in { m \in stock.files :
                                     clean_name(m) \notin exclude_list } }

InstallRunning == { p \in partition_layout : install[p] = "running" }

\* lines 91-124: wipe and recreate the workspace, submit one install task per
\* entry of partition_layout
InitializeTargetSubmit ==
    /\ install_pc = "idle"
    /\ install_pc' = "waiting"
    /\ install' = [p \in partition_layout |-> "pending"]
    /\ src_dir' = {}
    /\ img' = [p \in partition_layout |-> NoImg]
    /\ repack_images_dir' = [exists |-> TRUE, files |-> {}]
    /\ UNCHANGED <<sizeVars, is_eu_port, work_dir, settings_pc, smali_calls,
                   xml_calls, soh_pc, target_file, soh_calls, scriptVars,
                   rom_parts, stock_images, asmIn, pack_type, is_ab_device,
                   stock_rom_code, lpmake_exists, futures, build, pack_all_pc,
                   collected, super_pc, base_args, super_size, tool_log,
                   target_extra, super_files, out_path, out_dir, injected,
                   asm_log, ota_pc, images_out, removed, ab_partitions,
                   dynamic_partitions_info>>

\* a worker thread of the install pool takes a queued task
InstallStart(p) ==
    /\ install_pc = "waiting"
    /\ install[p] = "pending"
    /\ Cardinality(InstallRunning) < max_workers
    /\ install' = [install EXCEPT ![p] = "running"]
    /\ UNCHANGED <<sizeVars, pipeVars, is_eu_port, work_dir, settings_pc,
                   smali_calls, xml_calls, soh_pc, target_file, soh_calls,
                   scriptVars, rom_parts, stock_images, install_pc>>

\* _install_partition, lines 149-189: a partition the source ROM lacks is
\* skipped, any other gets its directory in target_dir
InstallRun(p) ==
    /\ install[p] = "running"
    /\ install' = [install EXCEPT ![p] = "done"]
    /\ src_dir' = IF p \in rom_parts THEN src_dir \cup {p} ELSE src_dir
    /\ UNCHANGED <<sizeVars, is_eu_port, work_dir, settings_pc, smali_calls,
                   xml_calls, soh_pc, target_file, soh_calls, scriptVars,
                   rom_parts, stock_images, install_pc, asmIn, asmVars,
                   pack_type, is_ab_device, stock_rom_code, lpmake_exists,
                   img, futures, build, pack_all_pc, collected, super_pc,
                   base_args>>

\* lines 126-147: every install task has finished and was collected (a
\* failure is logged, not raised); the firmware images are collected.  The
\* device code get_rom_info resolves is the stock_rom_code of the run.
InitializeTargetReturn ==
    /\ install_pc = "waiting"
    /\ \A p \in partition_layout : install[p] = "done"
    /\ install_pc' = "returned"
    /\ repack_images_dir' =
          [exists |-> TRUE, files |-> _copy_firmware_images(stock_images)]
    /\ UNCHANGED <<sizeVars, is_eu_port, work_dir, settings_pc, smali_calls,
                   xml_calls, soh_pc, target_file, soh_calls, scriptVars,
                   rom_parts, stock_images, install, asmIn, pack_type,
                   is_ab_device, stock_rom_code, lpmake_exists, src_dir, img,
                   futures, build, pack_all_pc, collected, super_pc,
                   base_args, super_size, tool_log, target_extra, super_files,
                   out_path, out_dir, injected, asm_log, ota_pc, images_out,
                   removed, ab_partitions, dynamic_partitions_info>>

\* ThreadPoolExecutor.__exit__ is shutdown(wait=True): the with block is
\* left, normally or by the re-raised exception, once every submitted task
\* has finished (line 56)
JoinedMutNoWait == TRUE
Joined == Submitted \subseteq Finished

Init ==
    /\ SizeIdle
    /\ ModIdle
    /\ pack_type \in {"EROFS", "EXT"}
    /\ is_ab_device \in BOOLEAN
    /\ stock_rom_code \in DeviceCodes
    /\ lpmake_exists \in BOOLEAN
    /\ src_dir \in SUBSET PartUniverse
    /\ img = [p \in partition_layout |-> NoImg]
    /\ futures = [p \in partition_layout |-> "none"]
    /\ build = [p \in partition_layout |-> NoBuild]
    /\ pack_all_pc = "idle"
    /\ collected = {}
    /\ super_pc = "idle"
    /\ base_args = <<>>
    /\ AsmQuiet

\* lines 46-61: list the partition directories and submit one task each
PackAllSubmit ==
    /\ pack_all_pc = "idle"
    /\ install_pc = "returned"
    /\ pack_all_pc' = "waiting"
    /\ futures' = [p \in partition_layout |->
                      IF p \in src_dir THEN "pending" ELSE "none"]
    /\ UNCHANGED <<sizeVars, modVars, asmIn, asmVars, pack_type, is_ab_device, stock_rom_code,
                   lpmake_exists, src_dir, img, build, collected, super_pc,
                   base_args>>

\* a worker thread of the pool takes a queued task (at most max_workers run)
TaskStart(p) ==
    /\ futures[p] = "pending"
    /\ Cardinality(Running) < max_workers
    /\ futures' = [futures EXCEPT ![p] = "running"]
    /\ UNCHANGED <<sizeVars, modVars, asmIn, asmVars, pack_type, is_ab_device, stock_rom_code,
                   lpmake_exists, src_dir, img, build, pack_all_pc,
                   collected, super_pc, base_args>>

\* the task body _pack_partition runs on its own subtree
TaskRun(p, tools) ==
    /\ futures[p] = "running"
    /\ \E o \in tools :
          LET r == _pack_partition(p, o)
          IN  /\ build' = [build EXCEPT ![p] = r.build]
              /\ img' = [img EXCEPT ![p] = r.img]
              /\ src_dir' = IF r.rmtree THEN src_dir \ {p} ELSE src_dir
              /\ futures' = [futures EXCEPT ![p] =
                                IF r.build.raised THEN "raised" ELSE "done"]
    /\ UNCHANGED <<sizeVars, modVars, asmIn, asmVars, pack_type, is_ab_device, stock_rom_code,
                   lpmake_exists, pack_all_pc, collected, super_pc,
                   base_args>>

\* lines 64-69: as_completed yields a finished future; result() returns or
\* re-raises the task's exception, which is logged and raised again
Collect(p) ==
    /\ pack_all_pc = "waiting"
    /\ p \in Finished \ collected
    /\ IF futures[p] = "raised"
       THEN pack_all_pc' = "unwinding" /\ UNCHANGED collected
       ELSE collected' = collected \cup {p} /\ UNCHANGED pack_all_pc
    /\ UNCHANGED <<sizeVars, modVars, asmIn, asmVars, pack_type, is_ab_device, stock_rom_code,
                   lpmake_exists, src_dir, img, futures, build, super_pc,
                   base_args>>

\* the loop is exhausted and the with block is left: pack_all returns
PackAllReturn ==
    /\ pack_all_pc = "waiting"
    /\ collected = Submitted
    /\ Joined
    /\ pack_all_pc' = "returned"
    /\ UNCHANGED <<sizeVars, modVars, asmIn, asmVars, pack_type, is_ab_device, stock_rom_code,
                   lpmake_exists, src_dir, img, futures, build, collected,
                   super_pc, base_args>>

\* the exception leaves the with block: pack_all raises to its caller
PackAllRaise ==
    /\ pack_all_pc = "unwinding"
    /\ Joined
    /\ pack_all_pc' = "raised"
    /\ UNCHANGED <<sizeVars, modVars, asmIn, asmVars, pack_type, is_ab_device, stock_rom_code,
                   lpmake_exists, src_dir, img, futures, build, collected,
                   super_pc, base_args>>

(***************************************************************************)
(* _generate_flash_script, lines 350-499: the hybrid package                *)
(***************************************************************************)
\* a file name is <<stem, extension>>; every name of the model has one dot
Image(stem) == <<stem, "img">>
SuperImg == Image("super")
SuperZst == <<"super", "zst">>

\* line 403
logical_parts == {"system", "vendor", "product", "system_ext", "odm", "mi_ext",
                  "odm_dlkm", "vendor_dlkm", "system_dlkm", "product_dlkm",
                  "cust"}

\* what the stock firmware copy can leave in repack_images: every stock
\* image outside the ten dynamic partitions (context.py lines 191-220)
FirmwareFiles == {Image("cust"), Image("dtbo"), Image("xbl")}
\* images a template tree can carry
TemplateImages == {<<"BTFM", "bin">>, Image("system")}
\* other images of target_dir
ExtraImages == {"boot"}
\* a script is absent, or carries the firmware marker, or lacks it
ScriptKinds == {"absent", "marker", "nomarker"}
EnvValues == {"unset", "true", "false"}
DeviceCustom == {"recovery"}

\* line 461: os.getenv("GITHUB_ACTIONS") == "true"
IsActionsRunMutTruthy(env) == env # "unset"
IsActionsRun(env) == env = "true"

\* line 258: the composer tool is looked up before anything else
LpmakeMissingMutNever(exists) == FALSE
LpmakeMissing(exists) == ~exists

\* line 348: zst_path if zst_path.exists() else super_img
FinalSuperMutAlwaysZst(files) == SuperZst
FinalSuper(files) == IF SuperZst \in files THEN SuperZst ELSE SuperImg

\* fw.split('.')[0]
Stem(fw) == fw[1]

\* "word in fw" over the file names of the model
Contains(fw, word) ==
    word \in (CASE Stem(fw) = "dtbo" -> {"dtbo"}
                [] Stem(fw) = "cust" -> {"cust"}
                [] OTHER -> {})

\* lines 571-577: file name to partition name, update-binary
PartUpdateBinary(fw) ==
    CASE fw = <<"uefi_sec", "mbn">> -> "uefisecapp"
      [] fw = <<"qupv3fw", "elf">> -> "qupfw"
      [] fw = <<"NON-HLOS", "bin">> -> "modem"
      [] fw = <<"km4", "mbn">> -> "keymaster"
      [] fw = <<"BTFM", "bin">> -> "bluetooth"
      [] fw = <<"dspso", "bin">> -> "dsp"
      [] OTHER -> Stem(fw)

\* lines 620-626: file name to partition name, shell and batch scripts
PartScriptMutNoBluetooth(fw) ==
    CASE fw = <<"uefi_sec", "mbn">> -> "uefisecapp"
      [] fw = <<"qupv3fw", "elf">> -> "qupfw"
      [] fw = <<"NON-HLOS", "bin">> -> "modem"
      [] fw = <<"km4", "mbn">> -> "keymaster"
      [] fw = <<"dspso", "bin">> -> "dsp"
      [] OTHER -> Stem(fw)
PartScript(fw) ==
    CASE fw = <<"uefi_sec", "mbn">> -> "uefisecapp"
      [] fw = <<"qupv3fw", "elf">> -> "qupfw"
      [] fw = <<"NON-HLOS", "bin">> -> "modem"
      [] fw = <<"km4", "mbn">> -> "keymaster"
      [] fw = <<"BTFM", "bin">> -> "bluetooth"
      [] fw = <<"dspso", "bin">> -> "dsp"
      [] OTHER -> Stem(fw)

\* lines 579-583: files no command is written for, update-binary
SkipUpdateBinaryMutBoot(fw) == Contains(fw, "dtbo") \/ Contains(fw, "cust")
SkipUpdateBinary(fw) ==
    \/ Contains(fw, "dtbo") \/ Contains(fw, "cust")
    \/ fw = Image("boot")

\* lines 628-632: files no command is written for, shell and batch scripts
SkipScript(fw) ==
    \/ Contains(fw, "dtbo") \/ Contains(fw, "cust")
    \/ fw = Image("boot")

\* lines 588-592, 634-646: one command per slot on an A/B device
\* every command names its file as firmware-update/<fw>
FlashCommandsMutOneSlot(tool, fw, part, is_ab) ==
    << [tool |-> tool, part |-> part, slot |-> "",
        folder |-> "firmware-update", fw |-> fw] >>
FlashCommands(tool, fw, part, is_ab) ==
    IF is_ab
    THEN << [tool |-> tool, part |-> part, slot |-> "_a",
             folder |-> "firmware-update", fw |-> fw],
            [tool |-> tool, part |-> part, slot |-> "_b",
             folder |-> "firmware-update", fw |-> fw] >>
    ELSE << [tool |-> tool, part |-> part, slot |-> "",
             folder |-> "firmware-update", fw |-> fw] >>

\* firmware_dir.glob("*"): the directory's files in some order
RECURSIVE Listing(_)
Listing(files) ==
    IF files = {} THEN <<>>
    ELSE LET f == CHOOSE g \in files : TRUE
         IN  <<f>> \o Listing(files \ {f})

\* lines 556-592: the commands for update-binary, empty unless the script
\* carries the marker (lines 594-603)
RECURSIVE InsertionUpdateBinary(_, _)
InsertionUpdateBinary(fw_files, is_ab) ==
    IF fw_files = <<>> THEN <<>>
    ELSE LET fw == Head(fw_files)
         IN  (IF SkipUpdateBinary(fw) THEN <<>>
              ELSE FlashCommands("package_extract_file", fw,
                                 PartUpdateBinary(fw), is_ab))
             \o InsertionUpdateBinary(Tail(fw_files), is_ab)

_patch_update_binary_firmware(kind, fw_files, is_ab) ==
    IF kind = "marker" THEN InsertionUpdateBinary(fw_files, is_ab) ELSE <<>>

\* lines 607-646: the commands for a root script
RECURSIVE InsertionScript(_, _, _)
InsertionScript(fw_files, is_ab, is_windows) ==
    IF fw_files = <<>> THEN <<>>
    ELSE LET fw == Head(fw_files)
         IN  (IF SkipScript(fw) THEN <<>>
              ELSE FlashCommands(IF is_windows THEN "fastboot.exe"
                                 ELSE "fastboot",
                                 fw, PartScript(fw), is_ab))
             \o InsertionScript(Tail(fw_files), is_ab, is_windows)

\* lines 648-654
_patch_script_for_firmware(kind, fw_files, is_ab, is_windows) ==
    IF kind = "marker" THEN InsertionScript(fw_files, is_ab, is_windows)
    ELSE <<>>

\* the *.img files of target_dir other than the super image
TargetImages ==
    { Image(p) : p \in { q \in partition_layout : img[q].exists } }
        \cup { Image(e) : e \in target_extra }

\* line 387: the folder of the staging directory the images are moved to
images_dir == "images"

\* line 411: an image of target_dir that is deleted instead of moved
RedundantMutAlways(f, has_super) == Stem(f) \in logical_parts
Redundant(f, has_super) == has_super /\ Stem(f) \in logical_parts

\* lines 350-499, for the super files zstd left in target_dir
_generate_flash_script(final_super, files) ==
    LET has_super == final_super \in files
        kept == { f \in TargetImages : ~Redundant(f, has_super) }
        firmware == IF repack_images_dir.exists
                    THEN repack_images_dir.files ELSE {}
        staged == template.images
                      \cup (IF has_super THEN {final_super} ELSE {})
                      \cup kept \cup firmware
        fw_files == Listing(staged)
    IN  /\ super_files' = files \ {final_super}
        /\ removed' = TargetImages \ kept
        /\ img' = [p \in partition_layout |-> NoImg]
        /\ target_extra' = {}
        /\ repack_images_dir' = [exists |-> FALSE, files |-> {}]
        /\ injected' =
              [v \in Variants |->
                  CASE v = "update-binary" ->
                         _patch_update_binary_firmware(update_binary,
                                                       fw_files, is_ab_device)
                    [] v = "sh" ->
                         _patch_script_for_firmware(template.sh, fw_files,
                                                    is_ab_device, FALSE)
                    [] v = "bat" ->
                         _patch_script_for_firmware(template.bat, fw_files,
                                                    is_ab_device, TRUE)]
        /\ IF IsActionsRun(GITHUB_ACTIONS)
           THEN /\ out_path' = [exists |-> TRUE, images |-> staged]
                /\ asm_log' = <<"stage">>
                /\ UNCHANGED out_dir
           ELSE /\ out_path' = [exists |-> FALSE, images |-> {}]
                /\ asm_log' = <<"stage", "zip", "md5", "rename", "rmtree">>
                /\ out_dir' = out_dir
                      \cup {[kind |-> "hybrid", images |-> staged]}

\* pack_super_image, lines 250-348, called once pack_all has returned
PackSuperImage ==
    /\ pack_all_pc = "returned"
    /\ super_pc = "idle"
    /\ ota_pc = "idle"
    /\ IF LpmakeMissing(lpmake_exists)
       THEN /\ super_pc' = "no_lpmake"
            /\ UNCHANGED <<base_args, img, super_size, tool_log, target_extra,
                           super_files, repack_images_dir, out_path, out_dir,
                           injected, asm_log, removed>>
       ELSE /\ super_size' = _get_super_size(stock_rom_code)
            /\ base_args' = Declarations(1, img, is_ab_device)
            /\ \E lpmake_ok \in (IF lpmake_exists THEN BOOLEAN ELSE {FALSE}),
                  zstd_ok \in BOOLEAN :
                  IF ~lpmake_ok
                  THEN /\ super_pc' = "lpmake_failed"
                       /\ tool_log' = <<"lpmake">>
                       /\ UNCHANGED <<img, target_extra, super_files,
                                      repack_images_dir, out_path, out_dir,
                                      injected, asm_log, removed>>
                  ELSE /\ super_pc' = "composed"
                       /\ tool_log' = <<"lpmake",
                                        IF zstd_ok THEN "zstd" ELSE "zstd!">>
                       /\ LET files == {SuperImg} \cup
                                 (IF zstd_ok THEN {SuperZst} ELSE {})
                          IN  _generate_flash_script(FinalSuper(files), files)
    /\ UNCHANGED <<sizeVars, modVars, asmIn, pack_type, is_ab_device, stock_rom_code,
                   lpmake_exists, src_dir, futures, build, pack_all_pc,
                   collected, ota_pc, images_out, ab_partitions,
                   dynamic_partitions_info>>

\* _generate_flash_script entered with the path of a super image that does
\* not exist (has_super false, line 398)
GenerateFlashScript ==
    /\ pack_all_pc = "returned"
    /\ super_pc = "idle"
    /\ ota_pc = "idle"
    /\ super_files = {}
    /\ super_pc' = "assembled"
    /\ _generate_flash_script(SuperImg, super_files)
    /\ UNCHANGED <<sizeVars, modVars, asmIn, pack_type, is_ab_device,
                   stock_rom_code, lpmake_exists, src_dir, futures, build,
                   pack_all_pc, collected, base_args, super_size, tool_log,
                   ota_pc, images_out, ab_partitions,
                   dynamic_partitions_info>>

\* sorted() on the image stems of the model: their order by code point
SortOrder == <<"boot", "cust", "dtbo", "mi_ext", "odm", "odm_dlkm", "product",
               "product_dlkm", "recovery", "super", "system", "system_dlkm",
               "system_ext", "vendor", "vendor_dlkm", "xbl">>
Sorted(names) == SelectSeq(SortOrder, LAMBDA n : n \in names)

RECURSIVE Stems(_)
Stems(files) ==
    IF files = <<>> THEN <<>> ELSE <<Stem(Head(files))>> \o Stems(Tail(files))

\* lines 717-722: the stems of IMAGES/*.img, cust left out, in glob order
partition_listMutKeepCust(images) ==
    Stems(Listing({ f \in images : f[2] = "img" }))
partition_list(images) ==
    Stems(Listing({ f \in images : f[2] = "img" /\ Stem(f) # "cust" }))

\* lines 724-726: ab_partitions.txt
ab_partitions_txt(plist) == Sorted(Range(plist))

\* lines 729-742: dynamic_partitions_info.txt, sizes in 4096-byte blocks
dynamic_partitions_info_txt(plist, code) ==
    LET sz == _get_super_size(code)
    IN  [super_size |-> sz,
         group_size |-> sz - (MiB \div BlockSize),
         partition_list |->
            SelectSeq(plist, LAMBDA q : q \in
               {"system", "vendor", "product", "system_ext", "odm", "mi_ext",
                "odm_dlkm", "vendor_dlkm", "system_dlkm", "product_dlkm"})]

\* pack_ota_payload, lines 656-709, with _run_ota_tool, lines 776-825
PackOtaPayload ==
    /\ pack_all_pc = "returned"
    /\ super_pc = "idle"
    /\ ota_pc = "idle"
    /\ LET firmware == IF repack_images_dir.exists
                       THEN repack_images_dir.files ELSE {}
           custom == { Image(c) : c \in device_custom }
           staged == TargetImages \cup firmware \cup custom
           plist == partition_list(staged)
       IN  /\ images_out' = staged
           /\ ab_partitions' = ab_partitions_txt(plist)
           /\ dynamic_partitions_info' =
                 dynamic_partitions_info_txt(plist, stock_rom_code)
           /\ \E tool_ok \in BOOLEAN :
                 IF tool_ok
                 THEN /\ ota_pc' = "packaged"
                      /\ out_dir' = out_dir
                            \cup {[kind |-> "ota", images |-> staged]}
                 ELSE /\ ota_pc' = "tool_failed"
                      /\ UNCHANGED out_dir
    /\ UNCHANGED <<sizeVars, modVars, asmIn, pack_type, is_ab_device, stock_rom_code,
                   lpmake_exists, src_dir, img, futures, build, pack_all_pc,
                   collected, super_pc, base_args, super_size, tool_log,
                   target_extra, super_files, repack_images_dir, out_path,
                   injected, asm_log, removed>>

Next ==
    \/ PackAllSubmit
    \/ \E p \in partition_layout : TaskStart(p)
    \/ \E p \in partition_layout : TaskRun(p, PipeOracles)
    \/ \E p \in partition_layout : Collect(p)
    \/ PackAllReturn
    \/ PackAllRaise
    \/ PackSuperImage
    \/ PackOtaPayload

Spec == Init /\ [][Next]_vars

(***************************************************************************)
(* SpecTask: one partition task, over every behaviour of the tools         *)
(***************************************************************************)
TaskInit ==
    /\ SizeIdle
    /\ ModIdle
    /\ pack_type \in {"EROFS", "EXT"}
    /\ is_ab_device = FALSE
    /\ stock_rom_code = "munch"
    /\ lpmake_exists = TRUE
    /\ \E p \in PartUniverse :
          /\ src_dir = {p}
          /\ futures = [q \in partition_layout |->
                           IF q = p THEN "running" ELSE "none"]
    /\ img = [p \in partition_layout |-> NoImg]
    /\ build = [p \in partition_layout |-> NoBuild]
    /\ pack_all_pc = "waiting"
    /\ collected = {}
    /\ super_pc = "idle"
    /\ base_args = <<>>
    /\ AsmQuiet

TaskNext == \E p \in partition_layout : TaskRun(p, Oracles)

SpecTask == TaskInit /\ [][TaskNext]_vars

(***************************************************************************)
(* SpecLayout: pack_super_image over the target directories pack_all can   *)
(* leave behind                                                            *)
(***************************************************************************)
ImageUniverse == { partitions[i] : i \in 1..MaxImages }
ImageSizes == ErofsSizes

LayoutInit ==
    /\ SizeIdle
    /\ ModIdle
    /\ pack_type = "EROFS"
    /\ is_ab_device \in BOOLEAN
    /\ stock_rom_code \in SuperSizeCodes
    /\ lpmake_exists \in BOOLEAN
    /\ \E built \in SUBSET ImageUniverse :
          /\ \E sz \in [built -> ImageSizes] :
                img = [p \in partition_layout |->
                          IF p \in built THEN ImgFile(sz[p], TRUE) ELSE NoImg]
          /\ futures = [p \in partition_layout |->
                           IF p \in built THEN "done" ELSE "none"]
          /\ collected = built
    /\ src_dir = {}
    /\ build = [p \in partition_layout |-> NoBuild]
    /\ pack_all_pc = "returned"
    /\ super_pc = "idle"
    /\ base_args = <<>>
    /\ AsmQuiet

LayoutNext == PackSuperImage

SpecLayout == LayoutInit /\ [][LayoutNext]_vars

(***************************************************************************)
(* SpecHybrid: one packaging call, pack_super_image or pack_ota_payload,   *)
(* over the target directories, firmware, templates and environments a run *)
(* can meet                                                                *)
(***************************************************************************)
HybridUniverse == { partitions[i] : i \in 1..MaxHybridParts }

HybridInit ==
    /\ SizeIdle
    /\ ModIdle
    /\ AsmIdle
    /\ pack_type = "EROFS"
    /\ is_ab_device \in BOOLEAN
    /\ stock_rom_code = "munch"
    /\ lpmake_exists \in BOOLEAN
    /\ \E built \in SUBSET HybridUniverse :
          /\ img = [p \in partition_layout |->
                       IF p \in built THEN ImgFile(BlockSize * 100, TRUE)
                       ELSE NoImg]
          /\ futures = [p \in partition_layout |->
                           IF p \in built THEN "done" ELSE "none"]
          /\ collected = built
    /\ src_dir = {}
    /\ build = [p \in partition_layout |-> NoBuild]
    /\ pack_all_pc = "returned"
    /\ super_pc = "idle"
    /\ base_args = <<>>
    /\ target_extra \in SUBSET ExtraImages
    /\ \/ repack_images_dir = [exists |-> FALSE, files |-> {}]
       \/ \E fs \in SUBSET FirmwareFiles :
             repack_images_dir = [exists |-> TRUE, files |-> fs]
    /\ \E ti \in SUBSET TemplateImages, sh \in ScriptKinds,
            bat \in {"absent", "marker"} :
          template = [images |-> ti, sh |-> sh, bat |-> bat]
    /\ update_binary \in ScriptKinds
    /\ device_custom \in SUBSET DeviceCustom
    /\ GITHUB_ACTIONS \in EnvValues

HybridNext == PackSuperImage \/ PackOtaPayload

SpecHybrid == HybridInit /\ [][HybridNext]_vars

(***************************************************************************)
(* SpecStage: the hybrid assembler with and without a super container,     *)
(* over target directories that also hold boot.img and cust.img            *)
(***************************************************************************)
StageExtra == {"boot", "cust"}

StageInit ==
    /\ SizeIdle
    /\ ModIdle
    /\ AsmIdle
    /\ pack_type = "EROFS"
    /\ is_ab_device \in BOOLEAN
    /\ stock_rom_code = "munch"
    /\ lpmake_exists = TRUE
    /\ \E built \in SUBSET HybridUniverse :
          /\ img = [p \in partition_layout |->
                       IF p \in built THEN ImgFile(BlockSize * 100, TRUE)
                       ELSE NoImg]
          /\ futures = [p \in partition_layout |->
                           IF p \in built THEN "done" ELSE "none"]
          /\ collected = built
    /\ src_dir = {}
    /\ build = [p \in partition_layout |-> NoBuild]
    /\ pack_all_pc = "returned"
    /\ super_pc = "idle"
    /\ base_args = <<>>
    /\ target_extra \in SUBSET StageExtra
    /\ \/ repack_images_dir = [exists |-> FALSE, files |-> {}]
       \/ \E fs \in SUBSET FirmwareFiles :
             repack_images_dir = [exists |-> TRUE, files |-> fs]
    /\ \E ti \in SUBSET TemplateImages :
          template = [images |-> ti, sh |-> "marker", bat |-> "marker"]
    /\ update_binary = "marker"
    /\ device_custom = {}
    /\ GITHUB_ACTIONS \in {"true", "unset"}

StageNext == PackSuperImage \/ GenerateFlashScript

SpecStage == StageInit /\ [][StageNext]_vars

(***************************************************************************)
(* Application patch modules: SettingsModule.run (settings.py) and         *)
(* SecurityCenterModule._patch_battery_health (securitycenter.py)          *)
(***************************************************************************)
\* the inner-class files work_dir.rglob("ChargeProtectFragment$*.smali") can
\* find
HandlerFiles == {"ChargeProtectFragment$a.smali", "ChargeProtectFragment$d.smali"}
NoFile == [exists |-> FALSE, handleMessage |-> FALSE, mentions |-> FALSE,
           fields |-> <<>>]
\* a file: whether its text holds "handleMessage", whether it holds
\* "ChargeProtectFragment", and the names of the fields it declares with type
\* Ljava/lang/ref/WeakReference;, in file order
FieldLists == {<<>>, <<"a">>, <<"b", "a">>}
SmaliFiles ==
    { [exists |-> TRUE, handleMessage |-> h, mentions |-> m, fields |-> fs] :
        h \in BOOLEAN, m \in BOOLEAN, fs \in FieldLists }
EuValues == {"True", "False", "missing"}

\* settings.py line 9: getattr(self.ctx, "is_eu_port", False), then its truth
IsEu(attr) == attr = "True"

\* settings.py lines 5-18
SettingsRun ==
    /\ settings_pc = "idle"
    /\ settings_pc' = "done"
    /\ IF IsEu(is_eu_port)
       THEN smali_calls' = Append(smali_calls,
                [iname |-> "MiuiSettings.smali",
                 method |-> "updateHeaderList",
                 regex_replace |-> "IS_GLOBAL_BUILD:Z -> const/4 0x1"])
       ELSE UNCHANGED smali_calls
    /\ UNCHANGED <<sizeVars, pipeVars, is_eu_port, work_dir, xml_calls, soh_pc,
                   target_file, soh_calls, scriptVars, ctxVars>>

\* securitycenter.py lines 31-35: a file whose text holds both words
IsHandler(f) == f.exists /\ f.handleMessage /\ f.mentions

\* securitycenter.py lines 43-49: re.search finds the leftmost match, the
\* first WeakReference field declaration of the file
DetectFieldMutLast(fields) ==
    IF fields = <<>> THEN "none" ELSE fields[Len(fields)]
DetectField(fields) ==
    IF fields = <<>> THEN "none" ELSE Head(fields)

\* securitycenter.py lines 24-100.  rglob yields the files in an order the
\* file system decides, so the loop can settle on any handler file.
PatchBatteryHealth ==
    /\ soh_pc = "idle"
    /\ soh_pc' = "done"
    /\ IF \A n \in HandlerFiles : ~IsHandler(work_dir[n])
       THEN UNCHANGED <<target_file, soh_calls>>
       ELSE \E n \in HandlerFiles :
              /\ IsHandler(work_dir[n])
              /\ target_file' = n
              /\ LET weak_ref_field == DetectField(work_dir[n].fields)
                 IN  IF weak_ref_field = "none"
                     THEN UNCHANGED soh_calls
                     ELSE soh_calls' = soh_calls \o
                            << [seek_keyword |-> "battery_health_soh",
                                file_path |-> "none", method |-> "none",
                                field |-> "none"],
                               [seek_keyword |-> "none",
                                file_path |-> n, method |-> "handleMessage",
                                field |-> weak_ref_field] >>
    /\ UNCHANGED <<sizeVars, pipeVars, is_eu_port, work_dir, settings_pc,
                   smali_calls, xml_calls, scriptVars, ctxVars>>

ModulesInit ==
    /\ SizeIdle
    /\ PipeIdle
    /\ ScriptIdle
    /\ CtxIdle
    /\ is_eu_port \in EuValues
    /\ work_dir \in [HandlerFiles -> SmaliFiles \cup {NoFile}]
    /\ settings_pc = "idle"
    /\ smali_calls = <<>>
    /\ xml_calls = <<>>
    /\ soh_pc = "idle"
    /\ target_file = "none"
    /\ soh_calls = <<>>

ModulesNext == SettingsRun \/ PatchBatteryHealth

SpecModules == ModulesInit /\ [][ModulesNext]_vars

(***************************************************************************)
(* SpecCollect: the end of initialize_target over stock image directories  *)
(***************************************************************************)
CollectInit ==
    /\ SizeIdle
    /\ PipeIdle
    /\ is_eu_port = "missing"
    /\ work_dir = <<>>
    /\ settings_pc = "idle"
    /\ smali_calls = <<>>
    /\ xml_calls = <<>>
    /\ soh_pc = "idle"
    /\ target_file = "none"
    /\ soh_calls = <<>>
    /\ ScriptIdle
    /\ rom_parts = {}
    /\ \/ stock_images = [exists |-> FALSE, files |-> {}]
       \/ \E fs \in SUBSET StockNames :
             stock_images = [exists |-> TRUE, files |-> fs]
    /\ install = [p \in partition_layout |-> "done"]
    /\ install_pc = "waiting"

CollectNext == InitializeTargetReturn

SpecCollect == CollectInit /\ [][CollectNext]_vars

(***************************************************************************)
(* SpecPool: initialize_target, then pack_all, with more partitions than   *)
(* workers and tools that succeed                                          *)
(***************************************************************************)
PoolUniverse == { partitions[i] : i \in 1..PoolParts }
PoolOracles ==
    { o \in PipeOracles : o.failAt = 0 /\ ~o.leftover /\ o.probe = 1 }

PoolInit ==
    /\ SizeIdle
    /\ AsmQuiet
    /\ is_eu_port = "missing"
    /\ work_dir = <<>>
    /\ settings_pc = "idle"
    /\ smali_calls = <<>>
    /\ xml_calls = <<>>
    /\ soh_pc = "idle"
    /\ target_file = "none"
    /\ soh_calls = <<>>
    /\ ScriptIdle
    /\ pack_type = "EROFS"
    /\ is_ab_device = FALSE
    /\ stock_rom_code = "munch"
    /\ lpmake_exists = FALSE
    /\ src_dir = {}
    /\ img = [p \in partition_layout |-> NoImg]
    /\ futures = [p \in partition_layout |-> "none"]
    /\ build = [p \in partition_layout |-> NoBuild]
    /\ pack_all_pc = "idle"
    /\ collected = {}
    /\ super_pc = "idle"
    /\ base_args = <<>>
    /\ rom_parts = PoolUniverse
    /\ stock_images = [exists |-> FALSE, files |-> {}]
    /\ install = [p \in partition_layout |-> "none"]
    /\ install_pc = "idle"

PoolNext ==
    \/ InitializeTargetSubmit
    \/ \E p \in partition_layout : InstallStart(p)
    \/ \E p \in partition_layout : InstallRun(p)
    \/ InitializeTargetReturn
    \/ PackAllSubmit
    \/ \E p \in partition_layout : TaskStart(p)
    \/ \E p \in partition_layout : TaskRun(p, PoolOracles)
    \/ \E p \in partition_layout : Collect(p)
    \/ PackAllReturn

SpecPool == PoolInit /\ [][PoolNext]_vars

(***************************************************************************)
(* SpecInject: one injector on one script, over script texts with no, one  *)
(* or several markers                                                      *)
(***************************************************************************)
\* a script's text is a sequence of tokens: a marker, or other text
Tokens == {"# firmware", "REM firmware", "text"}
RECURSIVE SeqsUpTo(_, _)
SeqsUpTo(S, n) ==
    IF n = 0 THEN {<<>>}
    ELSE LET shorter == SeqsUpTo(S, n - 1)
         IN  shorter \cup { Append(q, x) : q \in shorter, x \in S }
Contents == SeqsUpTo(Tokens, MaxScriptLen)
InjectFiles == {Image("xbl"), Image("boot"), <<"BTFM", "bin">>}

\* lines 595 and 649: the marker of the script
Marker(is_windows) == IF is_windows THEN "REM firmware" ELSE "# firmware"

\* content.split(marker): the text before the first marker
RECURSIVE Parts0(_, _)
Parts0(text, marker) ==
    IF text = <<>> \/ Head(text) = marker THEN <<>>
    ELSE <<Head(text)>> \o Parts0(Tail(text), marker)

\* content.split(marker): the text between the first marker and the next
Parts1(text, marker) ==
    Parts0(SubSeq(text, Len(Parts0(text, marker)) + 2, Len(text)), marker)

\* lines 594-603 and 648-654: parts[0] + marker + "\n" + insertion + parts[1]
\* is written when the marker occurs, nothing otherwise
InsertAfterMarker(text, marker, insertion) ==
    IF marker \in Range(text)
    THEN [written |-> TRUE, head |-> Parts0(text, marker),
          insertion |-> insertion, tail |-> Parts1(text, marker)]
    ELSE [written |-> FALSE, head |-> text, insertion |-> <<>>,
          tail |-> <<>>]

\* _patch_update_binary_firmware (lines 554-603) or
\* _patch_script_for_firmware (lines 605-654) on one script
InjectFirmware ==
    /\ inject_pc = "idle"
    /\ inject_pc' = "done"
    /\ LET fw_files == Listing(firmware_dir)
           is_windows == script_path = "bat"
       IN  IF fw_files = <<>>
           THEN new_content' = [written |-> FALSE, head |-> content,
                                insertion |-> <<>>, tail |-> <<>>]
           ELSE IF script_path = "update-binary"
           THEN new_content' =
                   InsertAfterMarker(content, Marker(FALSE),
                       InsertionUpdateBinary(fw_files, is_ab_device))
           ELSE new_content' =
                   InsertAfterMarker(content, Marker(is_windows),
                       InsertionScript(fw_files, is_ab_device, is_windows))
    /\ UNCHANGED <<sizeVars, pipeVars, is_eu_port, work_dir, settings_pc,
                   smali_calls, xml_calls, soh_pc, target_file, soh_calls,
                   script_path, content, firmware_dir, ctxVars>>

InjectInit ==
    /\ size_orig = <<>>
    /\ size = <<>>
    /\ pack_type = "EROFS"
    /\ is_ab_device \in BOOLEAN
    /\ stock_rom_code = "OTHER"
    /\ lpmake_exists = FALSE
    /\ src_dir = {}
    /\ img = <<>>
    /\ futures = <<>>
    /\ build = <<>>
    /\ pack_all_pc = "idle"
    /\ collected = {}
    /\ super_pc = "idle"
    /\ base_args = <<>>
    /\ AsmQuiet
    /\ is_eu_port = "missing"
    /\ work_dir = <<>>
    /\ settings_pc = "idle"
    /\ smali_calls = <<>>
    /\ xml_calls = <<>>
    /\ soh_pc = "idle"
    /\ target_file = "none"
    /\ soh_calls = <<>>
    /\ CtxIdle
    /\ script_path \in Variants
    /\ content \in Contents
    /\ firmware_dir \in SUBSET InjectFiles
    /\ new_content = [written |-> FALSE, head |-> <<>>, insertion |-> <<>>,
                      tail |-> <<>>]
    /\ inject_pc = "idle"

InjectNext == InjectFirmware

SpecInject == InjectInit /\ [][InjectNext]_vars

(***************************************************************************)
(* Claims about pack_all                                                   *)
(***************************************************************************)
\* C1: pack_all returns or raises only after every submitted partition task
\* has run to completion, whether or not another task failed, so that
\* pack_super_image never starts while a partition build is still running.
C1_JoinBarrier ==
    (pack_all_pc \in {"returned", "raised"} \/ super_pc # "idle")
        => /\ Submitted \subseteq Finished
           /\ Running = {}

\* a task failed, pack_all raised, and a sibling whose result the loop never
\* took has nevertheless run to completion
C1_Witness ==
    /\ pack_all_pc = "raised"
    /\ \E p, q \in Submitted :
          /\ futures[p] = "raised"
          /\ futures[q] = "done"
          /\ q \notin collected

\* C2: for either image format, a failing partition build is caught and
\* pack_all completes without propagating an exception to its caller.
C2_NoPropagation == pack_all_pc # "raised"

\* C3: whenever <partition>.img exists in target_dir when pack_super_image
\* runs, it is the product of a build whose every tool step succeeded.
C3_OnlyCompleteImages ==
    [][super_pc = "idle" /\ super_pc' # "idle" =>
          \A p \in partition_layout : img[p].exists => img[p].complete]_vars

(***************************************************************************)
(* Claims about the two-pass fit of _pack_ext4                             *)
(***************************************************************************)
Ext4Done(p) ==
    /\ futures[p] \in {"done", "raised"}
    /\ build[p].format = "EXT"
    /\ build[p].first_pass

\* C7: after a successful first pass the second-pass rebuild occurs if and
\* only if the partition is not mi_ext and the measured free-block count is
\* > 0; a failed probe counts as 0 free blocks and causes no rebuild.
C7_RebuildIff ==
    \A p \in partition_layout :
        Ext4Done(p) =>
            (build[p].rebuilt <=>
                (p # "mi_ext" /\ build[p].free # ProbeFail /\ build[p].free > 0))

C7_Witness ==
    \E p \in partition_layout :
        /\ Ext4Done(p) /\ p # "mi_ext"
        /\ build[p].rebuilt /\ build[p].free > 0
        /\ futures[p] = "done"

\* C8: a second-pass rebuild is made at (first-pass shrunk size -
\* free_blocks * 4096) rounded down to a multiple of 4096, which is strictly
\* smaller than the first-pass shrunk size.
C8_RebuildSize ==
    \A p \in partition_layout :
        (Ext4Done(p) /\ build[p].rebuilt) =>
            /\ build[p].new_size =
                  ((build[p].current_img_size - build[p].free * 4096) \div 4096) * 4096
            /\ build[p].new_size < build[p].current_img_size

C8_Witness ==
    \E p \in partition_layout :
        /\ Ext4Done(p) /\ build[p].rebuilt
        /\ build[p].free = 2
        /\ build[p].new_size = build[p].current_img_size - 8192
        /\ img[p].complete

(***************************************************************************)
(* Claims about the layout of pack_super_image                             *)
(***************************************************************************)
Composing == super_pc = "idle" /\ super_pc' \in {"composed", "lpmake_failed"}

DeclsOf(args, part) == { i \in 1..Len(args) : args[i].part = part }

LayoutDeclares(images, is_ab, args) ==
    /\ \A i \in 1..Len(args) : args[i].part \in partition_layout
    /\ \A part \in partition_layout :
          IF ~images[part].exists THEN DeclsOf(args, part) = {}
          ELSE IF ~is_ab
          THEN /\ Cardinality(DeclsOf(args, part)) = 1
               /\ \A i \in DeclsOf(args, part) :
                     /\ args[i].slot = ""
                     /\ args[i].size = images[part].size
                     /\ args[i].image
          ELSE /\ Cardinality(DeclsOf(args, part)) = 2
               /\ \E i, j \in DeclsOf(args, part) :
                     /\ args[i].slot = "_a"
                     /\ args[i].size = images[part].size
                     /\ args[i].image
                     /\ args[j].slot = "_b"
                     /\ args[j].size = 0
                     /\ ~args[j].image

\* C9: the layout declares each present partition image exactly once with
\* its real size on an A-only device, and exactly twice on a virtual-A/B
\* device (<name>_a with the real size and the image, <name>_b with size 0
\* and no image); partitions without an image are not declared.
C9_LayoutDeclarations ==
    [][Composing => LayoutDeclares(img, is_ab_device, base_args')]_vars

C9_Witness ==
    /\ super_pc = "composed"
    /\ is_ab_device
    /\ Len(base_args) = 4
    /\ base_args[1].size # base_args[3].size
    /\ base_args[2].size = 0

RECURSIVE SumBlocks(_, _, _)
\* whole 4096-byte blocks declared in a group, from index i on
SumBlocks(args, group, i) ==
    IF i > Len(args) THEN 0
    ELSE (IF args[i].group = group THEN args[i].size \div BlockSize ELSE 0)
         + SumBlocks(args, group, i + 1)

RECURSIVE SumRest(_, _, _)
\* the bytes beyond whole blocks declared in a group, from index i on
SumRest(args, group, i) ==
    IF i > Len(args) THEN 0
    ELSE (IF args[i].group = group THEN args[i].size % BlockSize ELSE 0)
         + SumRest(args, group, i + 1)

\* sum of the declared sizes of a group <= budget (budget in blocks)
WithinBudget(args, group, budget) ==
    SumBlocks(args, group, 1)
        + ((SumRest(args, group, 1) + BlockSize - 1) \div BlockSize) <= budget

\* C10: in every layout handed to lpmake, the declared sizes of the
\* partitions of each group sum to at most the group's budget, the resolved
\* super size.
C10_GroupBudget ==
    super_pc \in {"composed", "lpmake_failed"} =>
        \A g \in Groups(is_ab_device) :
            WithinBudget(base_args, g, _get_super_size(stock_rom_code))

(***************************************************************************)
(* Claims about the packages                                               *)
(***************************************************************************)
\* the images of the hybrid package: the archive's, or the preserved
\* staging directory's
HybridContents ==
    UNION ({ z.images : z \in { y \in out_dir : y.kind = "hybrid" } }
               \cup {out_path.images})

\* C11: a hybrid package never holds both a super container and a
\* standalone image of a partition known to live inside the dynamic volume,
\* whether the image came from target_dir, the firmware directory or the
\* template.
C11_NoRedundantLogical ==
    super_pc = "composed" =>
        ~ /\ HybridContents \cap {SuperImg, SuperZst} # {}
          /\ \E f \in HybridContents :
                f[2] = "img" /\ f[1] \in logical_parts

\* the deliverables of the run: archives in out_dir, and the staging
\* directory when it is preserved
Packages == Cardinality(out_dir) + (IF out_path.exists THEN 1 ELSE 0)

\* C12: a run of pack_super_image or pack_ota_payload leaves exactly one
\* package, also when the composer is missing or fails or the payload
\* generator fails.
C12_ExactlyOnePackage ==
    (super_pc # "idle" \/ ota_pc # "idle") => Packages = 1

Position(log, step) == CHOOSE i \in 1..Len(log) : log[i] = step

\* C13: with GITHUB_ACTIONS equal to "true" the assembler writes no archive
\* and the staging directory still exists on return; otherwise the staging
\* directory is deleted, and only after the archive was written, checksummed
\* and renamed.
C13_StagingLifecycle ==
    super_pc = "composed" =>
        IF GITHUB_ACTIONS = "true"
        THEN /\ out_dir = {}
             /\ out_path.exists
             /\ \A i \in 1..Len(asm_log) :
                   asm_log[i] \notin {"zip", "rmtree"}
        ELSE /\ ~out_path.exists
             /\ \E z \in out_dir : z.kind = "hybrid"
             /\ \A step \in {"zip", "md5", "rename", "rmtree"} :
                   \E i \in 1..Len(asm_log) : asm_log[i] = step
             /\ Position(asm_log, "zip") < Position(asm_log, "md5")
             /\ Position(asm_log, "md5") < Position(asm_log, "rename")
             /\ Position(asm_log, "rename") < Position(asm_log, "rmtree")

C13_Witness ==
    /\ super_pc = "composed"
    /\ GITHUB_ACTIONS = "false"
    /\ ~out_path.exists
    /\ out_dir # {}

\* the table of device super sizes, in 4096-byte blocks:
\* 9663676416 = 2359296 * 4096, 9122611200 = 2227200 * 4096,
\* 11811160064 = 2883584 * 4096, 9126805504 = 2228224 * 4096
ExpectedSuperSize(code) ==
    CASE code \in {"fuxi", "FUXI", "Marble"} -> 2359296
      [] code \in {"sunstone"} -> 2227200
      [] code \in {"YUDI"} -> 2883584
      [] OTHER -> 2228224

\* C14: the resolved super size is never zero; it is the table's size for
\* the upper-cased device code when the table lists it, and 9126805504
\* bytes otherwise.
C14_SuperSize ==
    super_pc \in {"composed", "lpmake_failed"} =>
        /\ super_size > 0
        /\ super_size = ExpectedSuperSize(stock_rom_code)

C14_Witness ==
    /\ super_pc = "composed"
    /\ stock_rom_code = "Marble"
    /\ super_size = SuperSize13Series

\* the fixed table of firmware file names
ExpectedPartition(fw) ==
    CASE fw = <<"uefi_sec", "mbn">> -> "uefisecapp"
      [] fw = <<"qupv3fw", "elf">> -> "qupfw"
      [] fw = <<"NON-HLOS", "bin">> -> "modem"
      [] fw = <<"km4", "mbn">> -> "keymaster"
      [] fw = <<"BTFM", "bin">> -> "bluetooth"
      [] fw = <<"dspso", "bin">> -> "dsp"
      [] OTHER -> fw[1]

\* C15: update-binary, the shell script and the batch script map a firmware
\* file name to the same partition, by the fixed table, and to the file's
\* stem otherwise.
C15_SameMapping ==
    /\ \A v \in Variants : \A i \in 1..Len(injected[v]) :
          injected[v][i].part = ExpectedPartition(injected[v][i].fw)
    /\ \A v, w \in Variants :
          \A i \in 1..Len(injected[v]), j \in 1..Len(injected[w]) :
             injected[v][i].fw = injected[w][j].fw
                => injected[v][i].part = injected[w][j].part

C15_Witness ==
    /\ super_pc = "composed"
    /\ \A v \in Variants :
          /\ \E i \in 1..Len(injected[v]) :
                /\ injected[v][i].fw = <<"BTFM", "bin">>
                /\ injected[v][i].part = "bluetooth"
          /\ \E i \in 1..Len(injected[v]) :
                /\ injected[v][i].fw = Image("xbl")
                /\ injected[v][i].part = "xbl"

\* C16: no injected command flashes boot.img or a file named after dtbo or
\* cust.
C16_NoBootDtboCust ==
    \A v \in Variants : \A i \in 1..Len(injected[v]) :
        injected[v][i].fw \notin {Image("boot"), Image("dtbo"), Image("cust")}

C16_Witness ==
    /\ super_pc = "composed"
    /\ {Image("boot"), Image("dtbo"), Image("cust")} \subseteq HybridContents
    /\ \A v \in Variants : Len(injected[v]) > 0

\* C17: without lpmake, pack_super_image returns without raising and
\* without invoking the composer, the compressor or the assembler, and
\* leaves target_dir and the output directory as they were.
C17_NoLpmakeAborts ==
    [][(super_pc = "idle" /\ super_pc' # "idle" /\ ~lpmake_exists) =>
          /\ super_pc' = "no_lpmake"
          /\ tool_log' = <<>>
          /\ asm_log' = <<>>
          /\ UNCHANGED <<img, target_extra, super_files, repack_images_dir,
                         out_path, out_dir>>]_vars

C17_Witness ==
    /\ super_pc = "no_lpmake"
    /\ \E p \in partition_layout : img[p].exists
    /\ target_extra # {}
    /\ repack_images_dir.files # {}
    /\ out_dir = {}

C19_SettingsCalls ==
    settings_pc = "done" =>
        IF is_eu_port = "True"
        THEN /\ Len(smali_calls) = 1
             /\ smali_calls[1].iname = "MiuiSettings.smali"
             /\ smali_calls[1].method = "updateHeaderList"
             /\ xml_calls = <<>>
        ELSE /\ Len(smali_calls) = 2
             /\ smali_calls[1].iname = "IconDisplayCustomizationSettings.smali"
             /\ smali_calls[1].method = "setupShowNotificationIconCount"
             /\ xml_calls # <<>>

Writer(c) ==
    c.seek_keyword = "battery_health_soh" /\ c.file_path = "none"

Reader(c, n) ==
    /\ c.file_path = n
    /\ c.method = "handleMessage"
    /\ work_dir[n].fields # <<>>
    /\ c.field = work_dir[n].fields[1]

\* C20: _patch_battery_health issues no smali patch unless it found a
\* handler file holding handleMessage and, in it, a WeakReference field;
\* when it found both it issues exactly two patches, the writer (by the
\* keyword battery_health_soh) and then the reader on handleMessage of
\* exactly that file, with the detected field name.
C20_BatteryHealthPatches ==
    soh_pc = "done" =>
        IF /\ target_file # "none"
           /\ work_dir[target_file].fields # <<>>
        THEN /\ work_dir[target_file].handleMessage
             /\ Len(soh_calls) = 2
             /\ Writer(soh_calls[1])
             /\ Reader(soh_calls[2], target_file)
        ELSE soh_calls = <<>>

C20_Witness ==
    /\ soh_pc = "done"
    /\ target_file = "ChargeProtectFragment$d.smali"
    /\ work_dir[target_file].fields = <<"b", "a">>
    /\ IsHandler(work_dir["ChargeProtectFragment$a.smali"])
    /\ Len(soh_calls) = 2
    /\ soh_calls[2].field = "b"

(***************************************************************************)
(* Claims about the EROFS path                                             *)
(***************************************************************************)
Steps(log) == { log[i] : i \in 1..Len(log) }
Before(log, a, b) ==
    \A j \in 1..Len(log) : log[j] = b => \E i \in 1..(j - 1) : log[i] = a

\* C21: in the EROFS path a partition's source tree is deleted only after
\* mkfs.erofs succeeded for it, mkfs.erofs is invoked only after the
\* manifest patch step has finished, and a failing mkfs.erofs leaves the
\* source tree in place.
C21_ErofsCleanupOrder ==
    \A p \in partition_layout :
        (build[p].format = "EROFS" /\ futures[p] \in {"done", "raised"}) =>
            /\ p \notin src_dir =>
                  /\ "mkfs.erofs" \in Steps(build[p].log)
                  /\ Before(build[p].log, "mkfs.erofs", "rmtree")
            /\ Before(build[p].log, "patch", "mkfs.erofs")
            /\ Before(build[p].log, "patch", "mkfs.erofs:fail")
            /\ "mkfs.erofs:fail" \in Steps(build[p].log) =>
                  /\ p \in src_dir
                  /\ "rmtree" \notin Steps(build[p].log)

C21_Witness ==
    \E p \in partition_layout :
        /\ build[p].format = "EROFS"
        /\ futures[p] = "done"
        /\ build[p].log = <<"patch", "mkfs.erofs:fail">>
        /\ p \in src_dir
        /\ img[p].exists

(***************************************************************************)
(* Claims about the hybrid assembler's images and commands                 *)
(***************************************************************************)
\* the partitions the composer put into super
Composed == { base_args[i].part : i \in 1..Len(base_args) }

\* C22: every image the assembler deletes as redundant is contained in the
\* super container that was composed.
C22_RedundantInSuper ==
    super_pc = "composed" => \A f \in removed : f[1] \in Composed

AllCommands ==
    UNION { { injected[v][i] : i \in 1..Len(injected[v]) } : v \in Variants }

\* C23: no firmware-flash command is emitted for the super container
\* (super.zst or super.img) or for any other file of the scanned folder that
\* is not a collected firmware image.
C23_OnlyFirmwareCommands ==
    \A c \in AllCommands : c.fw \notin {SuperImg, SuperZst}

\* C24: every injected command names its image at the place the assembler
\* put it in the package: the command's folder is the images folder and the
\* file is one of the staged images.
C24_CommandPathsExist ==
    \A c \in AllCommands : c.folder = "images" /\ c.fw \in HybridContents

AssemblerStep == asm_log = <<>> /\ asm_log' # <<>>

Index(seq, x) == CHOOSE i \in 1..Len(seq) : seq[i] = x
Precedes(a, b) == Index(SortOrder, a) < Index(SortOrder, b)

\* C29: ab_partitions.txt lists exactly the stems of the images of the
\* IMAGES folder except cust, each once, in sorted order; the descriptor's
\* group budget is the super size less 1 MiB, and its member list holds
\* only dynamic-volume partitions of that list.
C29_MetaLists ==
    ota_pc # "idle" =>
        /\ Range(ab_partitions) =
              { f[1] : f \in { g \in images_out : g[2] = "img" } } \ {"cust"}
        /\ \A i, j \in 1..Len(ab_partitions) :
              i < j => Precedes(ab_partitions[i], ab_partitions[j])
        /\ dynamic_partitions_info.group_size =
              dynamic_partitions_info.super_size - 256
        /\ dynamic_partitions_info.super_size = 2228224
        /\ Range(dynamic_partitions_info.partition_list) \subseteq
              Range(ab_partitions) \cap
                 {"system", "vendor", "product", "system_ext", "odm",
                  "mi_ext", "odm_dlkm", "vendor_dlkm", "system_dlkm",
                  "product_dlkm"}

C29_Witness ==
    /\ ota_pc = "packaged"
    /\ Image("cust") \in images_out
    /\ ab_partitions = <<"boot", "dtbo", "odm", "recovery", "xbl">>
    /\ dynamic_partitions_info.partition_list = <<"odm">>

(***************************************************************************)
(* Claims about the injection into a script                                *)
(***************************************************************************)
CommandsFor(fw) ==
    { i \in 1..Len(new_content.insertion) : new_content.insertion[i].fw = fw }
SlotsFor(fw) == { new_content.insertion[i].slot : i \in CommandsFor(fw) }
ScriptMarker == IF script_path = "bat" THEN "REM firmware" ELSE "# firmware"
FirstMarker ==
    CHOOSE i \in 1..Len(content) :
        /\ content[i] = ScriptMarker
        /\ \A j \in 1..(i - 1) : content[j] # ScriptMarker

\* C25: for each firmware image that is not skipped the injector emits
\* exactly two commands (slots _a and _b) on an A/B device and exactly one,
\* unsuffixed, on an A-only device, right after the marker; without the
\* marker the script is left unchanged and nothing is raised.
C25_CommandsPerImage ==
    inject_pc = "done" =>
        IF ScriptMarker \in Range(content) /\ firmware_dir # {}
        THEN /\ new_content.written
             /\ new_content.head = SubSeq(content, 1, FirstMarker - 1)
             /\ \A fw \in firmware_dir :
                   IF fw \in {Image("boot"), Image("dtbo"), Image("cust")}
                   THEN CommandsFor(fw) = {}
                   ELSE IF is_ab_device
                   THEN /\ Cardinality(CommandsFor(fw)) = 2
                        /\ SlotsFor(fw) = {"_a", "_b"}
                   ELSE /\ Cardinality(CommandsFor(fw)) = 1
                        /\ SlotsFor(fw) = {""}
        ELSE /\ ~new_content.written
             /\ new_content.head = content

C25_Witness ==
    /\ inject_pc = "done"
    /\ is_ab_device
    /\ script_path = "bat"
    /\ content = <<"# firmware", "REM firmware", "text">>
    /\ firmware_dir = InjectFiles
    /\ Len(new_content.insertion) = 4
    /\ new_content.head = <<"# firmware">>

\* C26: the injection only adds lines: every character of the original
\* script is still in the patched script, in its original order, with the
\* commands inserted after the marker, also when the marker occurs more
\* than once.
C26_OnlyAddsLines ==
    inject_pc = "done" =>
        IF new_content.written
        THEN new_content.head \o <<ScriptMarker>> \o new_content.tail = content
        ELSE new_content.head = content

(***************************************************************************)
(* Claims about the workspace initialisation                               *)
(***************************************************************************)
\* a name without its trailing slot suffix
StripSlot(n) ==
    IF Len(n) >= 2 /\ SubSeq(n, Len(n) - 1, Len(n)) \in {<<"_", "a">>, <<"_", "b">>}
    THEN SubSeq(n, 1, Len(n) - 2)
    ELSE n

\* C28: the firmware collector copies exactly the stock images whose
\* partition name, without a trailing _a or _b, is not a dynamic partition,
\* each under its own file name.
C28_CollectsNonDynamic ==
    (install_pc = "returned" /\ stock_images.exists) =>
        repack_images_dir.files =
            { <<n, "img">> : n \in { m \in stock_images.files :
                                        StripSlot(m) \notin exclude_list } }

\* C30: at most 4 partition tasks run at any time, in the install pool and
\* in the image-building pool, and each partition is submitted as one task.
C30_BoundedPools ==
    /\ install_pc # "idle" =>
          /\ Cardinality(InstallRunning) <= 4
          /\ { p \in partition_layout : install[p] # "none" } =
                partition_layout
    /\ pack_all_pc # "idle" =>
          /\ Cardinality(Running) <= 4
          /\ Submitted = rom_parts

C30_Witness ==
    /\ Cardinality(Running) = 4
    /\ \E p \in partition_layout : futures[p] = "pending"
    /\ install_pc = "returned"

====
